---- MODULE Spec2Model ----
(***************************************************************************)
(* Model of agent-kit's orchestration engine (src/src/index.ts): the Agent *)
(* classes (TextAgent, ObjectAgent), the Network registry, the model-driven *)
(* agent inference and Network.execute with its nested executeAgent.        *)
(*                                                                          *)
(* JavaScript runs the code of one event-loop turn without interleaving, so *)
(* every action below is one such turn: the synchronous code from a call or *)
(* the completion of an awaited operation up to the next await on I/O.      *)
(* Texts are sequences of one-character strings, so that trim and split     *)
(* are computed the way String.prototype.trim and split compute them.       *)
(***************************************************************************)
EXTENDS Naturals, Sequences, FiniteSets

\* ------------------------------------------------------------------ bounds
\* Number of Network.execute calls the caller issues (they may overlap).
MaxCalls == 1
\* Largest number of fragments a text stream yields before it ends.
MaxFragments == 2

\* ------------------------------------------------------------ value spaces
\* JavaScript's undefined: the value of an absent key or an absent option.
undefined == "undefined"

\* The Agent objects of the caller: a TextAgent and an ObjectAgent.
AgentIds == {"T1", "O1"}

\* The class of each Agent object.
AgentClass(a) == IF a = "T1" THEN "TextAgent" ELSE "ObjectAgent"

\* The keys of an agent's parameter mapping that the model follows.
ParameterKeys == {"prompt", "model", "schema", "system"}

\* new TextAgent() / new ObjectAgent(): the default parameters = {}.
EmptyParameters == [k \in ParameterKeys |-> undefined]

\* The parameter mappings the caller constructs its agents with: a TextAgent
\* with a prompt, a model and a system text of its own, and an ObjectAgent
\* without a model, with or without a schema.
ConstructorParameters ==
  [T1 : {[prompt |-> "old", model |-> "M1", schema |-> undefined, system |-> "sys"]},
   O1 : {EmptyParameters,
         [prompt |-> undefined, model |-> undefined, schema |-> "S", system |-> "sys"]}]

\* The defaultModel the Network is constructed with: none, or M2.
ConstructorDefaults == [N1 : {undefined, "M2"}]

\* The prompts passed to Network.execute by call c: the empty string or a
\* prompt of its own.
Prompts(c) == {"", IF c = 1 THEN "p1" ELSE IF c = 2 THEN "p2" ELSE "p3"}

\* The (Network, name, agent) triples the caller registers.
RegisterInputs ==
  {<<"N1", <<"a">>, "T1">>, <<"N1", <<"b">>, "O1">>}

\* The texts the inference generation call returns.
InferenceTexts ==
  {<< >>,
   <<"a">>,
   <<"a", ",", " ", "b">>,
   <<"a", ",", "a">>}

\* The options of Network.execute: multipleAgents, stream, and whether a
\* streamCallback is supplied; the caller supplies one when it asks for
\* streaming, and only then.
ExecuteOptions ==
  {o \in [multipleAgents : BOOLEAN, stream : BOOLEAN, streamCallback : BOOLEAN] :
     o.streamCallback = o.stream}

CallIds == 1..MaxCalls

\* -------------------------------------------------------- pure JavaScript
\* !v is false: v is neither undefined nor the empty string.
Truthy(v) == v # undefined /\ v # ""

\* White space as String.prototype.trim sees it.
IsWhiteSpace(ch) == ch = " "

RECURSIVE TrimStart(_)
TrimStart(s) ==
  IF s # << >> /\ IsWhiteSpace(Head(s)) THEN TrimStart(Tail(s)) ELSE s

RECURSIVE TrimEnd(_)
TrimEnd(s) ==
  IF s # << >> /\ IsWhiteSpace(s[Len(s)])
    THEN TrimEnd(SubSeq(s, 1, Len(s) - 1))
    ELSE s

\* String.prototype.trim
Trim(s) == TrimEnd(TrimStart(s))

\* Index of the first "," of s, 0 when there is none.
FirstComma(s) ==
  IF \E i \in 1..Len(s) : s[i] = ","
    THEN CHOOSE i \in 1..Len(s) : s[i] = "," /\ \A j \in 1..(i - 1) : s[j] # ","
    ELSE 0

\* String.prototype.split(","): the empty string gives one empty token.
RECURSIVE Split(_)
Split(s) ==
  LET i == FirstComma(s)
  IN  IF i = 0
        THEN << s >>
        ELSE << SubSeq(s, 1, i - 1) >> \o Split(SubSeq(s, i + 1, Len(s)))

\* A name is kept by a parse that filters the empty tokens out.
IsName(name) == name # << >>

\* A parse that drops the empty tokens.
ParseAgentNamesNonEmpty(txt) ==
  LET tokens == Split(Trim(txt))
  IN  SelectSeq([i \in 1..Len(tokens) |-> Trim(tokens[i])], IsName)

\* The tail of inferAgents: text.trim().split(",").map(name => name.trim())
ParseAgentNames(txt) ==
  LET tokens == Split(Trim(txt))
  IN  [i \in 1..Len(tokens) |-> Trim(tokens[i])]

\* Map: the empty map, get (undefined when absent) and set.
EmptyMap == [n \in {} |-> undefined]
\* A lookup that settles for any registered agent when the name is absent.
MapGetAny(m, n) ==
  IF n \in DOMAIN m THEN m[n]
  ELSE IF DOMAIN m # {} THEN m[CHOOSE x \in DOMAIN m : TRUE]
  ELSE undefined
MapGet(m, n) == IF n \in DOMAIN m THEN m[n] ELSE undefined
\* A set that keeps the binding a name already has.
MapSetIfAbsent(m, n, v) ==
  [x \in (DOMAIN m) \cup {n} |-> IF x = n /\ n \notin DOMAIN m THEN v ELSE m[x]]
MapSet(m, n, v) == [x \in (DOMAIN m) \cup {n} |-> IF x = n THEN v ELSE m[x]]

\* ------------------------------------------------------------------ Agent
\* A merge that replaces the held parameters by the patch.
SetParametersReplace(held, patch) ==
  [k \in (DOMAIN held) \cup (DOMAIN patch) |->
     IF k \in DOMAIN patch THEN patch[k] ELSE undefined]

\* A merge with the spreads swapped: a key the agent already holds keeps its
\* value.
SetParametersHeldFirst(held, patch) ==
  [k \in (DOMAIN held) \cup (DOMAIN patch) |->
     IF k \in DOMAIN held /\ held[k] # undefined THEN held[k]
     ELSE IF k \in DOMAIN patch THEN patch[k] ELSE undefined]

\* Agent.setParameters: { ...this.parameters, ...parameters }
SetParameters(held, patch) ==
  [k \in (DOMAIN held) \cup (DOMAIN patch) |->
     IF k \in DOMAIN patch THEN patch[k] ELSE held[k]]

\* A check that asks for the prompt only.
TextAgentValidPromptOnly(p) == Truthy(p.prompt)

\* TextAgent.execute / TextAgent.stream pass their check.
TextAgentValid(p) == Truthy(p.prompt) /\ Truthy(p.model)

\* A validation that forgets the model.
ObjectAgentValidNoModel(p) == Truthy(p.prompt) /\ Truthy(p.schema)

\* ObjectAgent.validateParameters passes.
ObjectAgentValid(p) == Truthy(p.prompt) /\ Truthy(p.schema) /\ Truthy(p.model)

\* agent.execute() / agent.stream() reach the Generation Capability.
AgentValid(a, p) ==
  IF AgentClass(a) = "TextAgent" THEN TextAgentValid(p) ELSE ObjectAgentValid(p)

\* Errors are records: their kind and the agent name or class they are about.
NoError == [type |-> "none", of |-> << >>]

\* The error the agent throws otherwise.
MissingParameter(a) == [type |-> "MissingParameter", of |-> << AgentClass(a) >>]

\* A failure of the Generation Capability itself.
GenerationError == [type |-> "GenerationError", of |-> << >>]

\* The output of the Generation Capability for the parameters it was called
\* with by agent a: opaque, but it tells which call produced it.
Output(a, p) == [agent |-> a, prompt |-> p.prompt, model |-> p.model]

\* The j-th fragment of a text stream.
TextPart(j) == j

VARIABLES
  agents,        \* Network.agents: per Network, the Map name -> Agent
  defaultModel,  \* Network.parameters.defaultModel, per Network
  parameters,    \* Agent.parameters, per Agent object
  pc,            \* per execute call: "idle", "infer", "running", "resolved", "rejected"
  args,          \* per execute call: its Network, prompt and options
  text,          \* per execute call: the text the inference call returned
  agentNames,    \* per execute call: the local agentNames
  tasks,         \* per execute call: the executeAgent invocations, in dispatch order
  result,        \* per execute call: the local Map result
  error,         \* per execute call: the error the call rejected with
  generations,   \* history: per execute call, the Generation Capability calls
                 \* started for its inference and for its agents
  registered,    \* history: per Network and name, the agent of the last
                 \* registerAgent call and the agent of the call before it
  patches,       \* history: the setParameters calls the caller made, in order
  direct         \* history: the last execute()/stream() the caller made on an
                 \* agent itself, and its outcome

vars == <<agents, defaultModel, parameters, pc, args, text, agentNames, tasks,
          result, error, generations, registered, patches, direct>>

\* The Network objects and the execute calls of a behaviour are those its
\* initial state sets up; the invocations of a call are those it dispatched.
NetworkIds == DOMAIN agents
Calls == DOMAIN pc
TasksOf(c) == 1..Len(tasks[c])

\* The value of text before the inference call has returned.
NoText == << undefined >>

\* No Generation Capability call yet.
NoGenerations == [infer |-> 0, agent |-> 0]

\* No execute() or stream() made by the caller yet.
NoDirect == [agent |-> undefined, op |-> "none", params |-> EmptyParameters,
             raised |-> FALSE, generations |-> 0]

NoArgs == [net |-> undefined, prompt |-> undefined, multipleAgents |-> FALSE,
           stream |-> FALSE, streamCallback |-> FALSE]

\* No execute call of the set ids has been made, and the caller has done
\* nothing else yet.
NothingCalled(ids) ==
  /\ pc = [c \in ids |-> "idle"]
  /\ args = [c \in ids |-> NoArgs]
  /\ text = [c \in ids |-> NoText]
  /\ agentNames = [c \in ids |-> << >>]
  /\ tasks = [c \in ids |-> << >>]
  /\ result = [c \in ids |-> EmptyMap]
  /\ error = [c \in ids |-> NoError]
  /\ generations = [c \in ids |-> NoGenerations]
  /\ patches = << >>
  /\ direct = NoDirect

Init ==
  /\ agents = [n \in {"N1"} |-> EmptyMap]
  /\ registered = [n \in {"N1"} |-> EmptyMap]
  /\ defaultModel \in ConstructorDefaults
  /\ parameters \in ConstructorParameters
  /\ NothingCalled(CallIds)

\* ---------------------------------------------------------------- Network
\* The errors Network.execute throws.
NoApplicableAgents == [type |-> "NoApplicableAgents", of |-> << >>]
AgentNotRegistered(name) == [type |-> "AgentNotRegistered", of |-> name]

\* A resolution that prefers the Network's default.
ResolveModelDefaultFirst(own, default) == IF Truthy(default) THEN default ELSE own

\* agent.parameters.model || this.parameters.defaultModel
ResolveModel(own, default) == IF Truthy(own) THEN own ELSE default

\* The patch executeAgent merges into the agent.
MergePatch(held, prompt, default) ==
  [prompt |-> prompt, model |-> ResolveModel(held.model, default)]

\* An executeAgent that merges into a copy: the agent keeps the parameters
\* it held.
ExecuteAgentStartNoPersist(net, prompt, stream, name, P) ==
  LET agent == MapGet(agents[net], name)
  IN  IF agent = undefined
        THEN [parameters |-> P,
              task |-> [name |-> name, agent |-> undefined, invoked |-> FALSE,
                        params |-> EmptyParameters, generated |-> FALSE,
                        st |-> "failed", err |-> AgentNotRegistered(name),
                        parts |-> 0, sent |-> << >>]]
        ELSE LET merged == SetParameters(P[agent],
                             MergePatch(P[agent], prompt, defaultModel[net]))
                 valid == AgentValid(agent, merged)
             IN  [parameters |-> P,
                  task |-> [name |-> name, agent |-> agent, invoked |-> TRUE,
                            params |-> merged, generated |-> valid,
                            st |-> IF ~valid THEN "failed"
                                   ELSE IF stream THEN "streaming" ELSE "awaiting",
                            err |-> IF valid THEN NoError ELSE MissingParameter(agent),
                            parts |-> 0, sent |-> << >>]]

\* The synchronous part of executeAgent(name), up to its first await, run on
\* the agent parameters P: the parameters it leaves and the state of the
\* invocation.  A task records the agent found, whether agent.execute() or
\* agent.stream() was invoked and with which merged parameters, whether the
\* Generation Capability was reached, and the fragments handed to the
\* callback so far.
ExecuteAgentStart(net, prompt, stream, name, P) ==
  LET agent == MapGet(agents[net], name)
  IN  IF agent = undefined
        THEN [parameters |-> P,
              task |-> [name |-> name, agent |-> undefined, invoked |-> FALSE,
                        params |-> EmptyParameters, generated |-> FALSE,
                        st |-> "failed", err |-> AgentNotRegistered(name),
                        parts |-> 0, sent |-> << >>]]
        ELSE LET merged == SetParameters(P[agent],
                             MergePatch(P[agent], prompt, defaultModel[net]))
                 valid == AgentValid(agent, merged)
             IN  [parameters |-> [P EXCEPT ![agent] = merged],
                  task |-> [name |-> name, agent |-> agent, invoked |-> TRUE,
                            params |-> merged, generated |-> valid,
                            st |-> IF ~valid THEN "failed"
                                   ELSE IF stream THEN "streaming" ELSE "awaiting",
                            err |-> IF valid THEN NoError ELSE MissingParameter(agent),
                            parts |-> 0, sent |-> << >>]]

\* agentNames.map(executeAgent): the synchronous parts run one after the
\* other, each on the parameters the previous one left.
RECURSIVE Dispatch(_, _, _, _, _)
Dispatch(net, prompt, stream, names, P) ==
  IF names = << >>
    THEN [parameters |-> P, tasks |-> << >>]
    ELSE LET first == ExecuteAgentStart(net, prompt, stream, Head(names), P)
             rest == Dispatch(net, prompt, stream, Tail(names), first.parameters)
         IN  [parameters |-> rest.parameters,
              tasks |-> << first.task >> \o rest.tasks]

\* A dispatch that ignores multipleAgents.
DispatchedNamesAll(multipleAgents, names) == names

\* The names execute dispatches: the first one, or all with multipleAgents.
DispatchedNames(multipleAgents, names) ==
  IF multipleAgents THEN names ELSE << names[1] >>

\* The invocations that have rejected.
Failed(ts) == {i \in 1..Len(ts) : ts[i].st = "failed"}

\* A fan-in that is satisfied by one finished invocation.
AnyDone(ts) == \E i \in 1..Len(ts) : ts[i].st = "done"

\* Every invocation has fulfilled.
AllDone(ts) == \A i \in 1..Len(ts) : ts[i].st = "done"

\* A rejection with the error of the last failed invocation.
LastFailure(ts) ==
  ts[CHOOSE i \in Failed(ts) : \A j \in Failed(ts) : i >= j].err

\* The first rejection among the invocations: what await executeAgent(...)
\* and await Promise.all(...) reject with.
FirstFailure(ts) ==
  ts[CHOOSE i \in Failed(ts) : \A j \in Failed(ts) : i <= j].err

\* A fan-in that isolates failures: it waits for every invocation to settle
\* and then returns the mapping.
SettledPcIsolated(ts) ==
  IF \A i \in 1..Len(ts) : ts[i].st \in {"done", "failed"}
    THEN "resolved"
    ELSE "running"

\* A fan-in that swallows failures: it goes on waiting for the invocation
\* that failed.
SettledPcSwallows(ts) ==
  IF AllDone(ts) THEN "resolved" ELSE "running"

\* The state of a pending execute call once its invocations are ts.
SettledPc(ts) ==
  IF Failed(ts) # {} THEN "rejected"
  ELSE IF AllDone(ts) THEN "resolved"
  ELSE "running"

SettledError(ts) == IF Failed(ts) # {} THEN FirstFailure(ts) ELSE NoError

\* registerAgent(name, agent)
RegisterAgent(n, name, a) ==
  /\ agents' = [agents EXCEPT ![n] = MapSet(@, name, a)]
  /\ registered' = [registered EXCEPT ![n] =
       [x \in (DOMAIN @) \cup {name} |->
          IF x = name
          THEN [agent |-> a,
                previous |-> IF name \in DOMAIN @ THEN @[name].agent ELSE undefined]
          ELSE @[x]]]
  /\ UNCHANGED <<defaultModel, parameters, pc, args, text, agentNames, tasks,
                 result, error, generations, patches, direct>>

\* execute(prompt, params) up to the await of the inference call.  Calls
\* are numbered in the order they are made.
Execute(c, n, prompt, options) ==
  /\ pc[c] = "idle"
  /\ \A d \in Calls : d < c => pc[d] # "idle"
  /\ pc' = [pc EXCEPT ![c] = "infer"]
  /\ args' = [args EXCEPT ![c] =
       [net |-> n, prompt |-> prompt, multipleAgents |-> options.multipleAgents,
        stream |-> options.stream, streamCallback |-> options.streamCallback]]
  /\ generations' = [generations EXCEPT ![c].infer = @ + 1]
  /\ UNCHANGED <<agents, defaultModel, parameters, text, agentNames, tasks,
                 result, error, registered, patches, direct>>

\* A failure after which inferAgents calls generateText again.
InferAgentsFailRetry(c) ==
  /\ pc[c] = "infer"
  /\ generations' = [generations EXCEPT ![c].infer = @ + 1]
  /\ UNCHANGED <<agents, defaultModel, parameters, pc, args, text, agentNames,
                 tasks, result, error, registered, patches, direct>>

\* The inference call fails: inferAgents rejects, and execute with it.
InferAgentsFail(c) ==
  /\ pc[c] = "infer"
  /\ pc' = [pc EXCEPT ![c] = "rejected"]
  /\ error' = [error EXCEPT ![c] = GenerationError]
  /\ UNCHANGED <<agents, defaultModel, parameters, args, text, agentNames,
                 tasks, result, generations, registered, patches, direct>>

\* The inference call returns txt: the rest of inferAgents, the length check
\* and the dispatch, up to the await of the invocations.
InferAgentsReturn(c, txt) ==
  /\ pc[c] = "infer"
  /\ LET names == ParseAgentNames(txt)
     IN  /\ text' = [text EXCEPT ![c] = txt]
         /\ agentNames' = [agentNames EXCEPT ![c] = names]
         /\ IF Len(names) = 0
              THEN /\ pc' = [pc EXCEPT ![c] = "rejected"]
                   /\ error' = [error EXCEPT ![c] = NoApplicableAgents]
                   /\ UNCHANGED <<parameters, tasks, generations>>
              ELSE LET d == Dispatch(args[c].net, args[c].prompt, args[c].stream,
                              DispatchedNames(args[c].multipleAgents, names),
                              parameters)
                   IN  /\ parameters' = d.parameters
                       /\ tasks' = [tasks EXCEPT ![c] = d.tasks]
                       /\ pc' = [pc EXCEPT ![c] = SettledPc(d.tasks)]
                       /\ error' = [error EXCEPT ![c] = SettledError(d.tasks)]
                       /\ generations' = [generations EXCEPT ![c].agent =
                            @ + Cardinality({i \in 1..Len(d.tasks) : d.tasks[i].generated})]
  /\ UNCHANGED <<agents, defaultModel, args, result, registered, patches, direct>>

\* What a step of invocation i of call c does to the call: a call that is
\* still pending settles, a call that has rejected stays rejected.
Settle(c, ts) ==
  /\ tasks' = [tasks EXCEPT ![c] = ts]
  /\ IF pc[c] = "running"
       THEN /\ pc' = [pc EXCEPT ![c] = SettledPc(ts)]
            /\ error' = [error EXCEPT ![c] = SettledError(ts)]
       ELSE UNCHANGED <<pc, error>>

\* A completion whose generation call read the parameters the agent holds
\* when it completes, not the ones it was called with.
GenerateReturnReadsHeld(c, i) ==
  /\ i \in 1..Len(tasks[c])
  /\ tasks[c][i].st = "awaiting"
  /\ result' = [result EXCEPT ![c] =
       MapSet(@, tasks[c][i].name,
              Output(tasks[c][i].agent, parameters[tasks[c][i].agent]))]
  /\ Settle(c, [tasks[c] EXCEPT ![i].st = "done"])
  /\ UNCHANGED <<agents, defaultModel, parameters, args, text, agentNames,
                 generations, registered, patches, direct>>

\* A completion that also removes the agent from the registry.
GenerateReturnUnregisters(c, i) ==
  /\ i \in 1..Len(tasks[c])
  /\ tasks[c][i].st = "awaiting"
  /\ result' = [result EXCEPT ![c] =
       MapSet(@, tasks[c][i].name, Output(tasks[c][i].agent, tasks[c][i].params))]
  /\ agents' = [agents EXCEPT ![args[c].net] =
       [x \in (DOMAIN @) \ {tasks[c][i].name} |-> @[x]]]
  /\ Settle(c, [tasks[c] EXCEPT ![i].st = "done"])
  /\ UNCHANGED <<defaultModel, parameters, args, text, agentNames,
                 generations, registered, patches, direct>>

\* await agent.execute() returns: result.set(agentName, output)
GenerateReturn(c, i) ==
  /\ i \in 1..Len(tasks[c])
  /\ tasks[c][i].st = "awaiting"
  /\ result' = [result EXCEPT ![c] =
       MapSet(@, tasks[c][i].name, Output(tasks[c][i].agent, tasks[c][i].params))]
  /\ Settle(c, [tasks[c] EXCEPT ![i].st = "done"])
  /\ UNCHANGED <<agents, defaultModel, parameters, args, text, agentNames,
                 generations, registered, patches, direct>>

\* await agent.execute() throws the Generation Capability's error.
GenerateFail(c, i) ==
  /\ i \in 1..Len(tasks[c])
  /\ tasks[c][i].st = "awaiting"
  /\ Settle(c, [tasks[c] EXCEPT ![i].st = "failed", ![i].err = GenerationError])
  /\ UNCHANGED <<agents, defaultModel, parameters, args, text, agentNames, result,
                 generations, registered, patches, direct>>

\* A delivery that puts the newest fragment first.
DeliverPrepend(sent, part, streamCallback) ==
  IF streamCallback THEN << part >> \o sent ELSE sent

\* streamCallback?.(textPart): the fragments the callback has received, in
\* the order of its invocations.
Deliver(sent, part, streamCallback) ==
  IF streamCallback THEN Append(sent, part) ELSE sent

\* The stream yields its next fragment and the loop body runs.
StreamPart(c, i) ==
  /\ i \in 1..Len(tasks[c])
  /\ tasks[c][i].st = "streaming"
  /\ tasks[c][i].parts < MaxFragments
  /\ LET part == TextPart(tasks[c][i].parts + 1)
     IN  Settle(c, [tasks[c] EXCEPT
           ![i].parts = @ + 1,
           ![i].sent = Deliver(@, part, args[c].streamCallback)])
  /\ UNCHANGED <<agents, defaultModel, parameters, args, text, agentNames, result,
                 generations, registered, patches, direct>>

\* The stream ends: the for await loop and executeAgent finish.
StreamEnd(c, i) ==
  /\ i \in 1..Len(tasks[c])
  /\ tasks[c][i].st = "streaming"
  /\ Settle(c, [tasks[c] EXCEPT ![i].st = "done"])
  /\ UNCHANGED <<agents, defaultModel, parameters, args, text, agentNames, result,
                 generations, registered, patches, direct>>

\* A stream failure after which executeAgent calls agent.stream() again.
StreamFailRetry(c, i) ==
  /\ i \in 1..Len(tasks[c])
  /\ tasks[c][i].st = "streaming"
  /\ generations' = [generations EXCEPT ![c].agent = @ + 1]
  /\ UNCHANGED <<agents, defaultModel, parameters, pc, args, text, agentNames,
                 tasks, result, error, registered, patches, direct>>

\* The stream throws: the for await loop rethrows.
StreamFail(c, i) ==
  /\ i \in 1..Len(tasks[c])
  /\ tasks[c][i].st = "streaming"
  /\ Settle(c, [tasks[c] EXCEPT ![i].st = "failed", ![i].err = GenerationError])
  /\ UNCHANGED <<agents, defaultModel, parameters, args, text, agentNames, result,
                 generations, registered, patches, direct>>

\* Registering the binding a name already has changes nothing, so that only
\* the registrations that change the registry are followed.
Next ==
  \/ \E r \in RegisterInputs :
       /\ r[1] \in NetworkIds
       /\ MapGet(agents[r[1]], r[2]) # r[3]
       /\ RegisterAgent(r[1], r[2], r[3])
  \/ \E c \in Calls, n \in NetworkIds, o \in ExecuteOptions :
       \E p \in Prompts(c) : Execute(c, n, p, o)
  \/ \E c \in Calls : InferAgentsFail(c)
  \/ \E c \in Calls, txt \in InferenceTexts : InferAgentsReturn(c, txt)
  \/ \E c \in Calls : \E i \in TasksOf(c) : GenerateReturn(c, i)
  \/ \E c \in Calls : \E i \in TasksOf(c) : GenerateFail(c, i)
  \/ \E c \in Calls : \E i \in TasksOf(c) : StreamPart(c, i)
  \/ \E c \in Calls : \E i \in TasksOf(c) : StreamEnd(c, i)
  \/ \E c \in Calls : \E i \in TasksOf(c) : StreamFail(c, i)

Spec == Init /\ [][Next]_vars

\* ----------------------------------------- two overlapping execute calls
\* The caller issues two Network.execute calls on the same Network without
\* awaiting the first: every phase of one may interleave with the other's.
ConcurrentInit ==
  /\ agents = [n \in {"N1"} |-> EmptyMap]
  /\ registered = [n \in {"N1"} |-> EmptyMap]
  /\ defaultModel \in ConstructorDefaults
  /\ parameters \in ConstructorParameters
  /\ NothingCalled({1, 2})

ConcurrentSpec == ConcurrentInit /\ [][Next]_vars

\* --------------------------------------------------------- the registry alone
\* The caller registers agents on two Networks, under names it may use again
\* for another agent; no execute call is made.

\* The (Network, name, agent) triples the caller registers here.
RegistryInputs == {"N1", "N2"} \X {<<"a">>, <<"b">>} \X AgentIds

RegistryInit ==
  /\ agents = [n \in {"N1", "N2"} |-> EmptyMap]
  /\ registered = [n \in {"N1", "N2"} |-> EmptyMap]
  /\ defaultModel = [n \in {"N1", "N2"} |-> undefined]
  /\ parameters \in ConstructorParameters
  /\ NothingCalled({})

RegistryNext == \E r \in RegistryInputs : RegisterAgent(r[1], r[2], r[3])

RegistrySpec == RegistryInit /\ [][RegistryNext]_vars

\* ------------------------------------------------- the inferred name list
\* One execute call whose inference call may return any short text over the
\* characters that matter to trim and split; the call is followed up to its
\* dispatch.

\* Length of the longest text the inference call returns here.
MaxLen == 4

\* The characters of those texts: two letters, the comma and the blank.
Alphabet == {"a", "b", ",", " "}

\* The texts of at most n characters.
TextsUpTo(n) == UNION {[1..k -> Alphabet] : k \in 0..n}

ParseInit ==
  /\ agents = [n \in {"N1"} |-> EmptyMap]
  /\ registered = [n \in {"N1"} |-> EmptyMap]
  /\ defaultModel \in ConstructorDefaults
  /\ parameters \in ConstructorParameters
  /\ NothingCalled({1})

ParseNext ==
  \/ \E r \in RegisterInputs :
       /\ r[1] \in NetworkIds
       /\ MapGet(agents[r[1]], r[2]) # r[3]
       /\ RegisterAgent(r[1], r[2], r[3])
  \/ \E c \in Calls, n \in NetworkIds, o \in ExecuteOptions :
       \E p \in Prompts(c) : Execute(c, n, p, o)
  \/ \E c \in Calls, txt \in TextsUpTo(MaxLen) : InferAgentsReturn(c, txt)

ParseSpec == ParseInit /\ [][ParseNext]_vars

\* ------------------------------------------------------------ two Networks
\* The caller has two Networks, with the default models M1 and M2, registers
\* the ObjectAgent as "a" on both and the TextAgent as "b" on the first, and
\* makes two execute calls without streaming and without calling
\* setParameters itself.

\* The (Network, name, agent) triples the caller registers here.
PersistInputs ==
  {<<"N1", <<"a">>, "O1">>, <<"N1", <<"b">>, "T1">>, <<"N2", <<"a">>, "O1">>}

PersistInit ==
  /\ agents = [n \in {"N1", "N2"} |-> EmptyMap]
  /\ registered = [n \in {"N1", "N2"} |-> EmptyMap]
  /\ defaultModel = [n \in {"N1", "N2"} |-> IF n = "N1" THEN "M1" ELSE "M2"]
  /\ parameters \in ConstructorParameters
  /\ NothingCalled({1, 2})

PersistNext ==
  \/ \E r \in PersistInputs :
       /\ MapGet(agents[r[1]], r[2]) # r[3]
       /\ RegisterAgent(r[1], r[2], r[3])
  \/ \E c \in Calls, n \in NetworkIds, o \in ExecuteOptions :
       /\ ~o.stream
       /\ \E p \in Prompts(c) : Execute(c, n, p, o)
  \/ \E c \in Calls : InferAgentsFail(c)
  \/ \E c \in Calls, txt \in InferenceTexts : InferAgentsReturn(c, txt)
  \/ \E c \in Calls : \E i \in TasksOf(c) : GenerateReturn(c, i)
  \/ \E c \in Calls : \E i \in TasksOf(c) : GenerateFail(c, i)

PersistSpec == PersistInit /\ [][PersistNext]_vars

\* -------------------------------------------------------------- termination
\* One execute call under the assumption that the Generation Capability
\* answers: the inference call and every agent generation call eventually
\* complete or fail, and every stream eventually ends or fails.

\* The positions an invocation can have in the dispatch of a call.
TaskSlots == UNION {1..Len(ParseAgentNames(txt)) : txt \in InferenceTexts}

LiveInit ==
  /\ agents = [n \in {"N1"} |-> EmptyMap]
  /\ registered = [n \in {"N1"} |-> EmptyMap]
  /\ defaultModel \in ConstructorDefaults
  /\ parameters \in ConstructorParameters
  /\ NothingCalled({1})

\* The inference call of c completes or fails.
InferenceSettles(c) ==
  InferAgentsFail(c) \/ \E txt \in InferenceTexts : InferAgentsReturn(c, txt)

\* The generation call of invocation i of c completes or fails.
GenerationSettles(c, i) == GenerateReturn(c, i) \/ GenerateFail(c, i)

\* The stream of invocation i of c yields a fragment, ends or fails.
StreamAdvances(c, i) == StreamPart(c, i) \/ StreamEnd(c, i) \/ StreamFail(c, i)

Responsive ==
  \A c \in {1} :
    /\ WF_vars(InferenceSettles(c))
    /\ \A i \in TaskSlots :
         WF_vars(GenerationSettles(c, i)) /\ WF_vars(StreamAdvances(c, i))

LiveSpec == LiveInit /\ [][Next]_vars /\ Responsive

\* ------------------------------------------------- an agent used on its own
\* The caller constructs its agents without parameters, sets parameters with
\* setParameters and calls execute() or stream() on the agent itself
\* (README.md, Error Handling); no Network is involved.

\* Number of setParameters calls the caller makes.
MaxPatches == 3

\* The patches the caller passes to setParameters.
PatchInputs ==
  {[prompt |-> "p"], [prompt |-> ""], [model |-> "M1"], [schema |-> "S"],
   [system |-> "sys"]}

\* The two operations of an agent that reach the Generation Capability.
AgentOps == {"execute", "stream"}

\* new TextAgent(), new ObjectAgent(); the Network is not used.
AgentInit ==
  /\ agents = [n \in {"N1"} |-> EmptyMap]
  /\ registered = [n \in {"N1"} |-> EmptyMap]
  /\ defaultModel = [n \in {"N1"} |-> undefined]
  /\ parameters = [a \in AgentIds |-> EmptyParameters]
  /\ NothingCalled({})

\* The caller calls agent.setParameters(patch).
SetParametersCall(a, patch) ==
  /\ Len(patches) < MaxPatches
  /\ parameters' = [parameters EXCEPT ![a] = SetParameters(@, patch)]
  /\ patches' = Append(patches, <<a, patch>>)
  /\ UNCHANGED <<agents, defaultModel, pc, args, text, agentNames, tasks, result,
                 error, generations, registered, direct>>

\* The caller calls agent.execute() or agent.stream(): the agent checks the
\* parameters it holds and either throws or calls the Generation Capability
\* once with them.
AgentCall(a, op) ==
  /\ direct' = [agent |-> a, op |-> op, params |-> parameters[a],
                raised |-> ~AgentValid(a, parameters[a]),
                generations |-> IF AgentValid(a, parameters[a]) THEN 1 ELSE 0]
  /\ UNCHANGED <<agents, defaultModel, parameters, pc, args, text, agentNames,
                 tasks, result, error, generations, registered, patches>>

AgentNext ==
  \/ \E a \in AgentIds, patch \in PatchInputs : SetParametersCall(a, patch)
  \/ \E a \in AgentIds, op \in AgentOps : AgentCall(a, op)

AgentSpec == AgentInit /\ [][AgentNext]_vars

\* ------------------------------------------------------------ properties
\* The inference call of c has returned (the step InferAgentsReturn is done).
Inferred(c) == text[c] # NoText

\* The step in which the inference call of c returns and execute dispatches.
DispatchStep(c) == pc[c] = "infer" /\ text'[c] # NoText

\* A call that has rejected never resolves.
RejectedIsFinal == \A c \in Calls : pc[c] = "rejected" => pc'[c] = "rejected"

\* C1 (as claimed): when the inference call returns the empty text, execute
\* fails with NoApplicableAgents and no executeAgent invocation (registry
\* lookup or dispatch) has taken place.
C1_EmptyTextNoApplicableAgents ==
  \A c \in Calls :
    text[c] = << >> =>
      /\ pc[c] = "rejected"
      /\ error[c] = NoApplicableAgents
      /\ tasks[c] = << >>

\* C2 (as claimed): the Network invokes an agent's execute()/stream() only
\* when prompt and model are both present in its merged parameters.
C2_InvokedOnlyWithPromptAndModel ==
  \A c \in Calls : \A i \in TasksOf(c) :
    tasks[c][i].invoked =>
      /\ tasks[c][i].params.prompt \notin {undefined, ""}
      /\ tasks[c][i].params.model # undefined

\* C2 (amended): the Network invokes execute()/stream() after the merge, with
\* the call's prompt in the agent's parameters, whether or not a model was
\* resolved; the Generation Capability is reached only when prompt and model
\* are both present, and an invocation with one of them missing fails with
\* MissingParameter without reaching it.
C2_GenerationOnlyWithPromptAndModel ==
  \A c \in Calls : \A i \in TasksOf(c) :
    LET t == tasks[c][i]
        present == t.params.prompt \notin {undefined, ""} /\ t.params.model # undefined
    IN  /\ t.invoked => t.params.prompt = args[c].prompt
        /\ t.generated => t.invoked /\ present
        /\ t.invoked /\ ~present =>
             /\ ~t.generated
             /\ t.st = "failed"
             /\ t.err.type = "MissingParameter"

\* An agent without a model of its own was invoked under a Network without a
\* default model, and failed with MissingParameter.
C2_Witness ==
  \E c \in Calls : \E i \in TasksOf(c) :
    /\ tasks[c][i].invoked
    /\ args[c].prompt # ""
    /\ tasks[c][i].params.model = undefined
    /\ defaultModel[args[c].net] = undefined
    /\ tasks[c][i].err.type = "MissingParameter"

\* C3, the step part: the model of every dispatched agent is the agent's own
\* model if it has one when dispatched, otherwise the Network's default,
\* otherwise absent, and then the dispatch fails with MissingParameter.
C3_Resolution ==
  \A c \in Calls :
    DispatchStep(c) =>
      \A i \in 1..Len(tasks'[c]) :
        LET t == tasks'[c][i]
            own == parameters[t.agent].model
            dflt == defaultModel[args[c].net]
        IN  t.agent # undefined =>
              /\ t.params.model =
                   IF own # undefined THEN own
                   ELSE IF dflt # undefined THEN dflt
                   ELSE undefined
              /\ t.params.model = undefined =>
                   t.st = "failed" /\ t.err.type = "MissingParameter"

\* C3, the state part: the agent constructed with M1 reaches the Generation
\* Capability with M1 only.
C3_OwnModelWins ==
  \A c \in Calls : \A i \in TasksOf(c) :
    tasks[c][i].agent = "T1" /\ tasks[c][i].generated =>
      tasks[c][i].params.model = "M1"

\* C3: the model passed on for a dispatched agent follows the three-tier rule
\* (own model, else the Network's default, else absent and MissingParameter),
\* and an agent pre-configured with M1 executes with M1 under any default.
C3_ModelResolution == []C3_OwnModelWins /\ [][C3_Resolution]_vars

\* The agent constructed with M1 runs with M1 under the default M2, and the
\* call returned its output.
C3_Witness ==
  \E c \in Calls : \E i \in TasksOf(c) :
    /\ tasks[c][i].agent = "T1"
    /\ tasks[c][i].st = "done"
    /\ tasks[c][i].params.model = "M1"
    /\ defaultModel[args[c].net] = "M2"

\* C4, the step: what the merge of a dispatch does to the agent's parameters.
C4_Merge ==
  \A c \in Calls :
    DispatchStep(c) =>
      \A i \in 1..Len(tasks'[c]) :
        LET t == tasks'[c][i]
        IN  t.agent # undefined =>
              /\ t.params.prompt = args[c].prompt
              /\ parameters'[t.agent].prompt = args[c].prompt
              /\ \A k \in ParameterKeys \ {"prompt", "model"} :
                   /\ t.params[k] = parameters[t.agent][k]
                   /\ parameters'[t.agent][k] = parameters[t.agent][k]

\* C4: the merge of a dispatch sets the agent's prompt to the prompt of the
\* execute call, whatever it was, and leaves every key other than prompt and
\* model as it was before the call, in the parameters handed to the
\* Generation Capability and in those the agent holds.
C4_MergeFrame == [][C4_Merge]_vars

\* The TextAgent constructed with prompt "old" and a system text was
\* dispatched with another prompt and kept its system text.
C4_Witness ==
  \E c \in Calls : \E i \in TasksOf(c) :
    /\ tasks[c][i].agent = "T1"
    /\ tasks[c][i].params.prompt = "p1"
    /\ parameters["T1"].prompt = "p1"
    /\ parameters["T1"].system = "sys"

\* C5, the part about the dispatch: with multipleAgents=false one invocation
\* is made, for the first inferred name.
C5_OnlyFirstDispatched ==
  \A c \in Calls :
    Inferred(c) /\ ~args[c].multipleAgents =>
      /\ Len(tasks[c]) = 1
      /\ tasks[c][1].name = agentNames[c][1]

\* C5, the part about the parameters: the dispatch step changes the
\* parameters of no agent but the one found under the first name.
C5_OthersUntouched ==
  \A c \in Calls :
    DispatchStep(c) /\ ~args[c].multipleAgents =>
      \A a \in AgentIds :
        (agentNames'[c][1] \notin DOMAIN agents[args[c].net]
           \/ agents[args[c].net][agentNames'[c][1]] # a)
          => parameters'[a] = parameters[a]

\* C5 (as claimed): with multipleAgents=false and two or more inferred names
\* only the first is dispatched and the returned mapping has exactly one
\* entry.
C5_OneEntryReturned ==
  \A c \in Calls :
    ~args[c].multipleAgents /\ Len(agentNames[c]) >= 2 /\ pc[c] = "resolved" =>
      /\ Len(tasks[c]) = 1
      /\ Cardinality(DOMAIN result[c]) = 1

\* C5, the part about the mapping returned.
C5_Returned ==
  \A c \in Calls :
    ~args[c].multipleAgents /\ pc[c] = "resolved" =>
      DOMAIN result[c] = IF args[c].stream THEN {} ELSE {agentNames[c][1]}

\* C5 (amended): with multipleAgents=false only the first inferred name is
\* dispatched and no other agent's parameters change; the returned mapping
\* has exactly one entry, keyed by that name, when stream=false, and no
\* entry when stream=true.
C5_SingleDispatch ==
  [](C5_OnlyFirstDispatched /\ C5_Returned) /\ [][C5_OthersUntouched]_vars

\* Two names were inferred, multipleAgents=false, and the call returned a
\* mapping with the one entry of the first name.
C5_Witness ==
  \E c \in Calls :
    /\ ~args[c].multipleAgents
    /\ ~args[c].stream
    /\ Len(agentNames[c]) = 2
    /\ agentNames[c][1] # agentNames[c][2]
    /\ pc[c] = "resolved"
    /\ DOMAIN result[c] = {agentNames[c][1]}

\* C6: with multipleAgents=true and stream=false all inferred names are
\* dispatched in one step, the call returns only when every invocation has
\* finished, and the mapping returned has one entry per inferred name,
\* holding the output of the generation call of the agent dispatched under
\* that name for the prompt of this call.
C6_FanOutFanIn ==
  \A c \in Calls :
    args[c].multipleAgents /\ ~args[c].stream =>
      /\ Inferred(c) =>
           /\ Len(tasks[c]) = Len(agentNames[c])
           /\ \A i \in TasksOf(c) : tasks[c][i].name = agentNames[c][i]
      /\ pc[c] = "resolved" =>
           /\ \A i \in TasksOf(c) : tasks[c][i].st = "done"
           /\ DOMAIN result[c] = {agentNames[c][i] : i \in 1..Len(agentNames[c])}
           /\ \A i \in TasksOf(c) :
                /\ result[c][tasks[c][i].name].agent = tasks[c][i].agent
                /\ result[c][tasks[c][i].name].prompt = args[c].prompt
                /\ result[c][tasks[c][i].name].model = tasks[c][i].params.model

\* The inference ["a","b"] returned two entries, of two different agents.
C6_Witness ==
  \E c \in Calls :
    /\ args[c].multipleAgents
    /\ ~args[c].stream
    /\ pc[c] = "resolved"
    /\ DOMAIN result[c] = {<<"a">>, <<"b">>}
    /\ result[c][<<"a">>].agent # result[c][<<"b">>].agent

\* The invocations of c that failed in their synchronous part, at dispatch.
FailedAtDispatch(c) ==
  {i \in TasksOf(c) : tasks[c][i].err.type \in {"AgentNotRegistered", "MissingParameter"}}

C7_Rejected ==
  \A c \in Calls : \A i \in TasksOf(c) :
    tasks[c][i].err.type = "AgentNotRegistered" =>
      /\ ~tasks[c][i].invoked
      /\ tasks[c][i].err.of = tasks[c][i].name
      /\ pc[c] = "rejected"
      /\ \E j \in FailedAtDispatch(c) :
           /\ \A k \in FailedAtDispatch(c) : j <= k
           /\ error[c] = tasks[c][j].err

C8_Dispatched(c) ==
  IF args[c].multipleAgents THEN agentNames'[c] ELSE << agentNames'[c][1] >>

\* The positions of names without a registry entry when c dispatches.
C8_Unregistered(names, c) ==
  {k \in 1..Len(names) : names[k] \notin DOMAIN agents[args[c].net]}

\* C8, the step of the claim as made.
C8_AnyUnregistered ==
  \A c \in Calls :
    DispatchStep(c) /\ C8_Unregistered(agentNames'[c], c) # {} =>
      /\ pc'[c] = "rejected"
      /\ error'[c].type = "AgentNotRegistered"

\* C8 (as claimed): for both values of multipleAgents, if any inferred name
\* has no registry entry the call fails with AgentNotRegistered.
C8_AnyUnregisteredFails == [][C8_AnyUnregistered]_vars

\* C8, the step of the amended claim.
C8_DispatchedUnregistered ==
  \A c \in Calls :
    DispatchStep(c) =>
      LET names == C8_Dispatched(c)
          missing == C8_Unregistered(names, c)
      IN  /\ missing # {} =>
                LET k == CHOOSE x \in missing : \A y \in missing : x <= y
                IN  /\ pc'[c] = "rejected"
                    /\ \/ error'[c] = AgentNotRegistered(names[k])
                       \/ /\ error'[c].type = "MissingParameter"
                          /\ \E j \in 1..(k - 1) :
                               tasks'[c][j].err.type = "MissingParameter"
          /\ missing = {} =>
                /\ error'[c].type # "AgentNotRegistered"
                /\ \A i \in 1..Len(tasks'[c]) : tasks'[c][i].agent # undefined

\* C8 (amended): execute looks up the names it dispatches, every inferred
\* name with multipleAgents=true and the first one only with
\* multipleAgents=false.  If one of them has no registry entry the call
\* rejects, with AgentNotRegistered for the first such name unless an agent
\* listed before it failed with MissingParameter; a name that is not
\* dispatched is not looked up and fails nothing.
C8_Resolution == [][C8_DispatchedUnregistered]_vars

\* With multipleAgents=false the call returned although the second inferred
\* name has no registry entry.
C8_Witness ==
  \E c \in Calls :
    /\ ~args[c].multipleAgents
    /\ pc[c] = "resolved"
    /\ Len(agentNames[c]) = 2
    /\ agentNames[c][2] \notin DOMAIN agents[args[c].net]

\* C9, the state part: with multipleAgents=true, once an invocation has
\* failed the call has rejected.
C9_FailureRejects ==
  \A c \in Calls :
    args[c].multipleAgents /\ (\E i \in TasksOf(c) : tasks[c][i].st = "failed") =>
      pc[c] = "rejected"

\* C9, the step part: the call rejects with the error of an invocation that
\* failed in that very step, and a failed invocation is not run again.
C9_Originating ==
  \A c \in Calls :
    /\ args[c].multipleAgents /\ pc[c] # "rejected" /\ pc'[c] = "rejected"
         /\ tasks'[c] # << >> =>
           \E i \in 1..Len(tasks'[c]) :
             /\ tasks'[c][i].st = "failed"
             /\ i \in TasksOf(c) => tasks[c][i].st # "failed"
             /\ error'[c] = tasks'[c][i].err
    /\ \A i \in TasksOf(c) :
         tasks[c][i].st = "failed" => tasks'[c][i] = tasks[c][i]

\* C9: in the multipleAgents=true path a failure of one dispatched agent
\* rejects the call with the error of the agent whose failure rejected it,
\* nothing is caught or retried, and no result mapping is returned, not
\* even one with the outputs of the agents that succeeded.
C9_AllOrNothing ==
  []C9_FailureRejects /\ [][C9_Originating /\ RejectedIsFinal]_vars

\* A batch rejected with the error of a failed generation call while the
\* output of a sibling is in the mapping.
C9_Witness ==
  \E c \in Calls : \E i, j \in TasksOf(c) :
    /\ args[c].multipleAgents
    /\ pc[c] = "rejected"
    /\ tasks[c][i].err = GenerationError
    /\ error[c] = GenerationError
    /\ tasks[c][j].st = "done"
    /\ DOMAIN result[c] # {}

\* C10: in streaming mode the callback has received, for every streamed
\* agent, exactly the fragments its stream has produced so far, each once
\* and in the order of production, and the result mapping has no entry.
C10_Streaming ==
  \A c \in Calls :
    args[c].stream =>
      /\ result[c] = EmptyMap
      /\ \A i \in TasksOf(c) :
           /\ tasks[c][i].parts <= MaxFragments
           /\ args[c].streamCallback =>
                /\ Len(tasks[c][i].sent) = tasks[c][i].parts
                /\ \A j \in 1..tasks[c][i].parts : tasks[c][i].sent[j] = j

\* Two agents streamed concurrently, each handed two fragments to the
\* callback, and the call returned.
C10_Witness ==
  \E c \in Calls :
    /\ args[c].stream
    /\ args[c].streamCallback
    /\ pc[c] = "resolved"
    /\ Len(tasks[c]) = 2
    /\ \A i \in TasksOf(c) : Len(tasks[c][i].sent) >= 2

\* ---- C11
\* The keys an agent of the class requires.
C11_Required(a) ==
  IF AgentClass(a) = "TextAgent" THEN {"prompt", "model"}
  ELSE {"prompt", "model", "schema"}

\* C11, as stated: execute() and stream() of an agent raise MissingParameter
\* exactly when a required key (prompt, model; schema too for an ObjectAgent)
\* is absent from the parameters it holds, never calling the Generation
\* Capability then, and call it exactly once otherwise.
C11_RaisesExactlyWhenAbsent ==
  direct.op \in AgentOps =>
    /\ direct.raised <=> (\E k \in C11_Required(direct.agent) : direct.params[k] = undefined)
    /\ direct.generations = (IF direct.raised THEN 0 ELSE 1)

\* C11, amended: execute() and stream() of an agent raise MissingParameter
\* exactly when a required key is absent or holds the empty string, never
\* calling the Generation Capability then, and call it exactly once with the
\* held parameters otherwise; the outcome is the same for both operations.
C11_RaisesExactlyWhenFalsy ==
  direct.op \in AgentOps =>
    /\ direct.raised <=>
         (\E k \in C11_Required(direct.agent) : direct.params[k] \in {undefined, ""})
    /\ direct.generations = (IF direct.raised THEN 0 ELSE 1)

\* stream() was called on an ObjectAgent that holds a prompt and a model but
\* no schema: it raised and the Generation Capability was not called.
C11_Witness ==
  /\ direct.agent = "O1"
  /\ direct.op = "stream"
  /\ direct.params.prompt = "p"
  /\ direct.params.model = "M1"
  /\ direct.params.schema = undefined
  /\ direct.raised
  /\ direct.generations = 0

\* ---- C12
\* C12: the registry is mutated only by registerAgent: every step that changes
\* a Network's mapping name -> Agent is a registerAgent call and changes
\* nothing of any execute call or agent, so no phase of any of the
\* overlapping execute calls (inference, merge, validation, generation,
\* streaming, settling) changes the mapping.
C12_RegistryMutatedOnlyByRegisterAgent ==
  [][agents' # agents =>
       /\ registered' # registered
       /\ UNCHANGED <<defaultModel, parameters, pc, args, text, agentNames, tasks,
                      result, error, generations>>]_vars

\* Two execute calls overlap on a Network with both agents registered: one
\* has resolved with an output while the other is still streaming.
C12_Witness ==
  /\ DOMAIN agents["N1"] = {<<"a">>, <<"b">>}
  /\ pc[1] = "running"
  /\ \E i \in TasksOf(1) : tasks[1][i].st = "streaming" /\ tasks[1][i].parts > 0
  /\ pc[2] = "resolved"
  /\ DOMAIN result[2] # {}

\* ---- C13
\* The setParameters calls made on agent a that contained key k, by position.
C13_PatchesOf(a, k) ==
  {i \in 1..Len(patches) : patches[i][1] = a /\ k \in DOMAIN patches[i][2]}

\* C13: setParameters is a shallow merge and nothing else: after any sequence
\* of setParameters calls every key of every agent holds the value of the
\* last patch of that agent that contained it, and the value the agent was
\* constructed with (here none) when no patch contained it; applying the
\* patch that was applied last once more changes nothing.
C13_ShallowMerge ==
  /\ [](\A a \in AgentIds :
          /\ DOMAIN parameters[a] = ParameterKeys
          /\ \A k \in ParameterKeys :
               LET idx == C13_PatchesOf(a, k)
               IN  parameters[a][k] =
                     IF idx = {} THEN undefined
                     ELSE patches[CHOOSE i \in idx : \A j \in idx : j <= i][2][k])
  /\ [][\A a \in AgentIds, q \in PatchInputs :
          (/\ Len(patches) > 0
           /\ patches[Len(patches)] = <<a, q>>
           /\ patches' = Append(patches, <<a, q>>))
          => parameters' = parameters]_vars

\* {prompt: "p"}, then {system: "sys"}, then {prompt: ""} were merged into the
\* TextAgent: it holds the second prompt and the system text.
C13_Witness ==
  /\ patches = << <<"T1", [prompt |-> "p"]>>, <<"T1", [system |-> "sys"]>>,
                  <<"T1", [prompt |-> ""]>> >>
  /\ parameters["T1"] =
       [prompt |-> "", model |-> undefined, schema |-> undefined, system |-> "sys"]
  /\ parameters["O1"] = EmptyParameters

\* ---- C14
\* C14: after any sequence of registerAgent calls every name is bound to at
\* most one agent, the agent of the last registerAgent call for that name on
\* that Network (a name never registered is not bound), and a registerAgent
\* call leaves the bindings of the other names and Networks as they were.
C14_LastRegistrationWins ==
  /\ [](\A n \in NetworkIds :
          /\ DOMAIN agents[n] = DOMAIN registered[n]
          /\ \A name \in DOMAIN agents[n] : agents[n][name] = registered[n][name].agent)
  /\ [][\A n \in NetworkIds : \A name \in DOMAIN agents[n] :
          registered'[n][name] = registered[n][name]
          => agents'[n][name] = agents[n][name]]_vars

\* registerAgent("a", T1), then registerAgent("a", O1) on the same Network:
\* one entry for "a", bound to O1, and the entry of "b" is the one made once.
C14_Witness ==
  /\ DOMAIN registered["N1"] = {<<"a">>, <<"b">>}
  /\ registered["N1"][<<"a">>] = [agent |-> "O1", previous |-> "T1"]
  /\ registered["N1"][<<"b">>] = [agent |-> "T1", previous |-> undefined]
  /\ agents["N1"] = [x \in {<<"a">>, <<"b">>} |-> IF x = <<"a">> THEN "O1" ELSE "T1"]
  /\ agents["N2"] = EmptyMap

\* ---- C15
\* Invocation i of call c has called the Generation Capability and the call
\* has not completed yet.
C15_Pending(c, i) ==
  tasks[c][i].generated /\ tasks[c][i].st \in {"awaiting", "streaming"}

\* C15, as stated: when two overlapping execute calls with different prompts
\* route to the same agent and the later dispatch has overwritten the prompt
\* the agent holds, the pending generation call made for the earlier call
\* runs with the prompt written by the other call.
C15_GenerationRunsWithOtherPrompt ==
  \A c \in Calls, d \in Calls :
    \A i \in TasksOf(c), j \in TasksOf(d) :
      (/\ c # d
       /\ tasks[c][i].agent = tasks[d][j].agent
       /\ C15_Pending(c, i) /\ C15_Pending(d, j)
       /\ args[c].prompt # args[d].prompt
       /\ parameters[tasks[c][i].agent].prompt = args[d].prompt)
      => tasks[c][i].params.prompt = args[d].prompt

\* C15, amended: two overlapping execute calls that route to the same agent
\* both write its parameter mapping, the later dispatch overwriting the
\* prompt of the earlier, but every generation call runs with the prompt of
\* the execute call it was made for, and so does every output returned.
C15_GenerationRunsWithOwnPrompt ==
  \A c \in Calls :
    /\ \A i \in TasksOf(c) :
         tasks[c][i].generated => tasks[c][i].params.prompt = args[c].prompt
    /\ \A name \in DOMAIN result[c] : result[c][name].prompt = args[c].prompt

\* Calls 1 and 2 both dispatched the TextAgent, with prompts p1 and p2: the
\* agent now holds p2, and the generation call pending for call 1 runs with
\* p1.
C15_Witness ==
  /\ pc[1] = "running" /\ pc[2] = "running"
  /\ args[1].prompt = "p1" /\ args[2].prompt = "p2"
  /\ parameters["T1"].prompt = "p2"
  /\ \E i \in TasksOf(1), j \in TasksOf(2) :
       /\ tasks[1][i].agent = "T1" /\ tasks[2][j].agent = "T1"
       /\ C15_Pending(1, i) /\ C15_Pending(2, j)
       /\ tasks[1][i].params.prompt = "p1"
       /\ tasks[2][j].params.prompt = "p2"

\* ---- C16
\* The generation calls of the invocations of call c that have not completed.
C16_PendingOf(c) ==
  {i \in TasksOf(c) : tasks[c][i].st \in {"awaiting", "streaming"}}

\* C16: an execute call issues exactly one inference generation call, and only
\* when that call has returned does it look up, merge into or call any agent;
\* with multipleAgents = false it makes at most one agent generation call, so
\* at most one operation of the call is pending at any time and none is once
\* the call has settled.
C16_OneInferenceFirst ==
  /\ [](\A c \in Calls :
          /\ generations[c].infer = (IF pc[c] = "idle" THEN 0 ELSE 1)
          /\ pc[c] \in {"idle", "infer"} =>
               ~Inferred(c) /\ tasks[c] = << >> /\ generations[c].agent = 0
          /\ tasks[c] # << >> => Inferred(c)
          /\ generations[c].agent =
               Cardinality({i \in TasksOf(c) : tasks[c][i].generated})
          /\ (pc[c] # "idle" /\ ~args[c].multipleAgents) =>
               /\ Len(tasks[c]) <= 1
               /\ generations[c].agent <= 1
               /\ Cardinality(C16_PendingOf(c)) <= 1
               /\ pc[c] \in {"resolved", "rejected"} => C16_PendingOf(c) = {})
  /\ [][/\ parameters' # parameters => \E c \in Calls : DispatchStep(c)
        /\ \A c \in Calls :
             (tasks[c] = << >> /\ tasks'[c] # << >>) => DispatchStep(c)]_vars

\* A call with multipleAgents = false has resolved: one inference call, then
\* one agent generation call although the inference named two agents.
C16_Witness ==
  \E c \in Calls :
    /\ pc[c] = "resolved"
    /\ ~args[c].multipleAgents
    /\ Len(agentNames[c]) = 2
    /\ generations[c] = [infer |-> 1, agent |-> 1]
    /\ Len(tasks[c]) = 1

\* ---- C17
\* s without the white space at its two ends.
C17_Strip(s) ==
  LET inked == {i \in 1..Len(s) : ~IsWhiteSpace(s[i])}
  IN  IF inked = {} THEN << >>
      ELSE SubSeq(s, CHOOSE i \in inked : \A j \in inked : i <= j,
                     CHOOSE i \in inked : \A j \in inked : j <= i)

\* The position of the k-th comma of s; 0 for k = 0 and Len(s) + 1 when s has
\* fewer than k commas.
C17_Comma(s, k) ==
  LET commas == {i \in 1..Len(s) : s[i] = ","}
  IN  IF k = 0 THEN 0
      ELSE IF k > Cardinality(commas) THEN Len(s) + 1
      ELSE CHOOSE i \in commas : Cardinality({j \in commas : j <= i}) = k

\* The number of times name occurs in the list names.
C17_Occurrences(names, name) ==
  Cardinality({k \in 1..Len(names) : names[k] = name})

\* C17: the inferred name list is exactly the list of the comma-separated
\* tokens of the returned text, each stripped of the white space around it,
\* in their order, duplicates and names that are not registered included;
\* with multipleAgents = true a name that occurs k times is dispatched k
\* times, in the order of the list.
C17_NamesAreTheTokens ==
  \A c \in Calls :
    Inferred(c) =>
      LET s == C17_Strip(text[c])
          commas == Cardinality({i \in 1..Len(s) : s[i] = ","})
      IN  /\ Len(agentNames[c]) = commas + 1
          /\ \A k \in 1..(commas + 1) :
               agentNames[c][k] =
                 C17_Strip(SubSeq(s, C17_Comma(s, k - 1) + 1, C17_Comma(s, k) - 1))
          /\ args[c].multipleAgents =>
               /\ Len(tasks[c]) = Len(agentNames[c])
               /\ \A i \in TasksOf(c) : tasks[c][i].name = agentNames[c][i]
               /\ \A i \in TasksOf(c) :
                    C17_Occurrences([j \in TasksOf(c) |-> tasks[c][j].name],
                                    tasks[c][i].name)
                      = C17_Occurrences(agentNames[c], tasks[c][i].name)

\* The inference call returned " a,a": the list is a, a, and with
\* multipleAgents = true the agent registered as a was invoked twice.
C17_Witness ==
  \E c \in Calls :
    /\ text[c] = <<" ", "a", ",", "a">>
    /\ agentNames[c] = << <<"a">>, <<"a">> >>
    /\ args[c].multipleAgents
    /\ Len(tasks[c]) = 2
    /\ tasks[c][1].invoked /\ tasks[c][2].invoked

\* ---- C18
\* C18, as stated: once an execute call with multipleAgents = true and
\* stream = true has rejected, streamCallback is never invoked for it again
\* and no further Generation Capability call is started for it.
C18_NothingAfterRejection ==
  [][\A c \in Calls :
       (pc[c] = "rejected" /\ args[c].multipleAgents /\ args[c].stream) =>
         /\ \A i \in TasksOf(c) : tasks'[c][i].sent = tasks[c][i].sent
         /\ generations'[c] = generations[c]]_vars

\* C18, amended: once an execute call has rejected, no further Generation
\* Capability call is started for it and no invocation is added to it; the
\* invocations already streaming are not cancelled, and streamCallback goes
\* on receiving their fragments.
C18_NoGenerationAfterRejection ==
  [][\A c \in Calls :
       pc[c] = "rejected" =>
         /\ generations'[c] = generations[c]
         /\ Len(tasks'[c]) = Len(tasks[c])
         /\ \A i \in TasksOf(c) :
              /\ tasks'[c][i].generated = tasks[c][i].generated
              /\ tasks'[c][i].invoked = tasks[c][i].invoked]_vars

\* A call with multipleAgents = true and stream = true rejected at dispatch,
\* before any fragment, because a name was not registered; the callback has
\* since received both fragments of the other agent's stream.
C18_Witness ==
  \E c \in Calls :
    /\ pc[c] = "rejected"
    /\ args[c].multipleAgents /\ args[c].stream
    /\ error[c].type = "AgentNotRegistered"
    /\ \E i \in TasksOf(c) : Len(tasks[c][i].sent) = MaxFragments

C20_Terminates ==
  \A c \in {1} :
    (pc[c] \in {"infer", "running"}) ~> (pc[c] \in {"resolved", "rejected"})

\* A call with multipleAgents = true and stream = true resolved after both of
\* its streams yielded every fragment and ended.
C20_Witness ==
  /\ pc[1] = "resolved"
  /\ args[1].multipleAgents /\ args[1].stream
  /\ Len(tasks[1]) = 2
  /\ \A i \in TasksOf(1) : tasks[1][i].st = "done" /\ tasks[1][i].parts = MaxFragments

====
